---- MODULE Spec2Model ----
(***************************************************************************)
(* The WordCloud component of                                              *)
(* src/frontend/src/components/charts/ComparisonTable.jsx: normalisation   *)
(* of the words prop (processedWords), the responsive sizing effect and    *)
(* the spiral layout effect, one step per iteration of the placement loop. *)
(*                                                                         *)
(* Numbers.  Lengths and coordinates are fixed-point integers in           *)
(* thousandths of a pixel (K per pixel); surface sizes, radii and the      *)
(* results of Math.round are whole pixels.  relevance_score is kept in     *)
(* thousandths, and so are sort keys, so that a count can be compared with *)
(* a relevance_score as the comparator does.  Math.cos and Math.sin are    *)
(* tables of thousandths.  A field that is missing or NaN has the value    *)
(* NaN below.  ctx.measureText is taken to report six tenths of the font   *)
(* size per character.                                                     *)
(*                                                                         *)
(* placements, dropped, totalAttempts, runs and history are history        *)
(* variables: they record what the layout effect did and are read by no    *)
(* action guard except the bound on runs.  The src field of a term is the  *)
(* position of its word in the words prop.  otherPlacedWords belongs to a  *)
(* second WordCloud instance, which only SpecClouds lets run.              *)
(***************************************************************************)
EXTENDS Integers, Sequences, FiniteSets, TLC

\* ------------------------------------------------------------------------
\* Bounds of the model
\* ------------------------------------------------------------------------
MaxLen == 2        \* longest words prop drawn at mount
MaxRuns == 3       \* layout-effect runs explored in one behaviour

\* ------------------------------------------------------------------------
\* Program constants
\* ------------------------------------------------------------------------
K == 1000                  \* fixed-point units per pixel
NaN == -999999             \* a field that is undefined or NaN
maxAttempts == 50
collisionMargin == 5
radiusStep == 2
minContainerWidth == 300
containerPadding == 48
defaultMaxWords == 50

colorSchemes ==
  [ youtube |-> << "#dc2626", "#ea580c", "#f97316", "#d97706", "#ca8a04" >>,
    blue    |-> << "#1e40af", "#2563eb", "#3b82f6", "#60a5fa", "#93c5fd" >>,
    green   |-> << "#166534", "#16a34a", "#22c55e", "#4ade80", "#86efac" >>,
    rainbow |-> << "#dc2626", "#ea580c", "#eab308", "#22c55e", "#3b82f6",
                   "#8b5cf6", "#ec4899" >> ]

\* Math.cos((attempts * 0.5) % (2 * Math.PI)) * 1000, attempts = 0..49
CosTable ==
  << 1000, 878, 540, 71, -416, -801, -990, -936, -654, -211,
     284, 709, 960, 977, 754, 347, -146, -602, -911, -997,
     -839, -476, 4, 483, 844, 998, 907, 595, 137, -355,
     -760, -978, -958, -702, -275, 219, 660, 940, 989, 796,
     408, -80, -548, -882, -1000, -873, -533, -62, 424, 806 >>

\* Math.sin((attempts * 0.5) % (2 * Math.PI)) * 1000, attempts = 0..49
SinTable ==
  << 0, 479, 841, 997, 909, 598, 141, -351, -757, -978,
     -959, -706, -279, 215, 657, 938, 989, 798, 412, -75,
     -544, -880, -1000, -875, -537, -66, 420, 804, 991, 935,
     650, 206, -288, -712, -961, -976, -751, -342, 150, 606,
     913, 997, 837, 472, -9, -487, -846, -998, -906, -591 >>

\* ------------------------------------------------------------------------
\* JavaScript primitives
\* ------------------------------------------------------------------------
Min(a, b) == IF a <= b THEN a ELSE b
Max(a, b) == IF a >= b THEN a ELSE b

\* v > 0 in JavaScript: false for undefined and NaN
GtZero(v) == v # NaN /\ v > 0
\* truthiness of a number: false for 0, undefined and NaN
Truthy(v) == v # NaN /\ v # 0

\* Math.round of a value given in thousandths: nearest integer, halves up
MathRound(m) == (m + 500) \div K

\* Array.prototype.slice(0, n)
Slice(s, n) ==
  IF n >= 0 THEN SubSeq(s, 1, Min(n, Len(s)))
  ELSE SubSeq(s, 1, Max(Len(s) + n, 0))

\* ------------------------------------------------------------------------
\* Inputs explored
\* ------------------------------------------------------------------------
\* words as the callers' data may carry them; relevance_score in thousandths
Pool ==
  { [keyword |-> "video",                    count |-> 5,   relevance_score |-> NaN],
    [keyword |-> "youtubechannelstatistics", count |-> 5,   relevance_score |-> NaN],
    [keyword |-> "music",                    count |-> NaN, relevance_score |-> 900],
    [keyword |-> "gaming",                   count |-> -3,  relevance_score |-> 500],
    [keyword |-> "",                         count |-> 5,   relevance_score |-> NaN],
    [keyword |-> "vlog",                     count |-> 0,   relevance_score |-> NaN],
    [keyword |-> "news",                     count |-> 2,   relevance_score |-> NaN] }

WordLists == UNION { [1..n -> Pool] : n \in 0..MaxLen }

\* the words prop: an array, or absent (undefined), or null
WordsProps ==
  { [kind |-> "array", list |-> l] : l \in WordLists }
    \cup { [kind |-> "undefined", list |-> << >>], [kind |-> "null", list |-> << >>] }

\* word lists a parent passes after mount
LaterLists ==
  { << >>,
    << [keyword |-> "vlog", count |-> 0, relevance_score |-> NaN] >>,
    << [keyword |-> "news", count |-> 2, relevance_score |-> NaN],
       [keyword |-> "video", count |-> 5, relevance_score |-> NaN] >> }

MaxWordsChoices == { 1, defaultMaxWords }
PropSizes ==
  { [width |-> 50, height |-> 50], [width |-> 120, height |-> 30],
    [width |-> 300, height |-> 30], [width |-> 0, height |-> 50] }
ContainerWidths == { 300, 400 }
Schemes == { "youtube", "blue" }

\* ------------------------------------------------------------------------
\* processedWords (lines 105-116)
\* ------------------------------------------------------------------------
\* the default parameter: words = []
WordsOrDefault(w) == IF w.kind = "undefined" THEN << >> ELSE w.list

\* the weight test of the filter: word.count > 0 || word.relevance_score > 0
HasWeight(word) == GtZero(word.count) \/ GtZero(word.relevance_score)

\* faulty variant: a word without a keyword is kept
KeepWordAnyKeyword(word) == HasWeight(word)

\* the filter predicate
KeepWord(word) == word.keyword # "" /\ HasWeight(word)

\* the comparator's operand, b.count || b.relevance_score || 0, in thousandths
SortKey(word) ==
  IF Truthy(word.count) THEN word.count * K
  ELSE IF Truthy(word.relevance_score) THEN word.relevance_score
  ELSE 0

\* word.count || Math.round((word.relevance_score || 0) * 100)
SizeOf(word) ==
  IF Truthy(word.count) THEN word.count
  ELSE IF Truthy(word.relevance_score) THEN MathRound(word.relevance_score * 100)
  ELSE 0

\* positions of list that pass the filter, in list order
RECURSIVE FilterFrom(_, _)
FilterFrom(list, i) ==
  IF i > Len(list) THEN << >>
  ELSE IF KeepWord(list[i]) THEN << i >> \o FilterFrom(list, i + 1)
       ELSE FilterFrom(list, i + 1)

\* faulty variant: position i goes in front of the positions with an equal key
RECURSIVE InsertSortedBeforeEqual(_, _, _)
InsertSortedBeforeEqual(list, sorted, i) ==
  IF sorted = << >> THEN << i >>
  ELSE IF SortKey(list[Head(sorted)]) > SortKey(list[i])
       THEN << Head(sorted) >> \o InsertSortedBeforeEqual(list, Tail(sorted), i)
       ELSE << i >> \o sorted

\* one insertion of the stable sort by (a, b) => key(b) - key(a): position i
\* goes behind every position whose key is not smaller
RECURSIVE InsertSorted(_, _, _)
InsertSorted(list, sorted, i) ==
  IF sorted = << >> THEN << i >>
  ELSE IF SortKey(list[Head(sorted)]) >= SortKey(list[i])
       THEN << Head(sorted) >> \o InsertSorted(list, Tail(sorted), i)
       ELSE << i >> \o sorted

RECURSIVE SortFrom(_, _, _)
SortFrom(list, positions, sorted) ==
  IF positions = << >> THEN sorted
  ELSE SortFrom(list, Tail(positions), InsertSorted(list, sorted, Head(positions)))

SortWords(list, positions) == SortFrom(list, positions, << >>)

\* the map: src is the position of the word in the words prop
MapWord(list, i) ==
  [ text      |-> list[i].keyword,
    size      |-> SizeOf(list[i]),
    count     |-> IF Truthy(list[i].count) THEN list[i].count ELSE 0,
    relevance |-> IF Truthy(list[i].relevance_score) THEN list[i].relevance_score ELSE 0,
    src       |-> i ]

\* faulty variant: the list is truncated before it is sorted
ProcessWordsSliceFirst(list, mw) ==
  LET ranked == SortWords(list, Slice(FilterFrom(list, 1), mw))
  IN  [ j \in 1..Len(ranked) |-> MapWord(list, ranked[j]) ]

ProcessWords(list, mw) ==
  LET ranked == Slice(SortWords(list, FilterFrom(list, 1)), mw)
  IN  [ j \in 1..Len(ranked) |-> MapWord(list, ranked[j]) ]

\* ------------------------------------------------------------------------
\* State
\* ------------------------------------------------------------------------
VARIABLES
  words,           \* the words prop
  maxWords,        \* the maxWords prop
  colorScheme,     \* the colorScheme prop
  height,          \* the height prop
  dimensions,      \* useState({ width, height })
  queued,          \* a setDimensions call not yet rendered
  processedWords,  \* the array computed by the last render
  canvasRef,       \* canvasRef.current is an element
  containerRef,    \* containerRef.current is an element
  resizePending,   \* the [height] effect has yet to run for this commit
  pc,              \* "commit", "placing", "ready" or "error"
  index,           \* position of the forEach callback in processedWords
  placed,          \* the callback's local placed
  attempts,        \* the callback's local attempts
  radius,          \* the callback's local radius
  totalAttempts,   \* iterations of the while loop in the current run
  placedWords,     \* the effect's local placedWords
  canvas,          \* what fillText has painted since the last clear
  placements,      \* the terms the current run has placed, in order
  dropped,         \* the terms the current run gave up on, in order
  runs,            \* layout-effect invocations so far
  history,         \* arguments and result of each completed run, in order
  threw,           \* a render raised a TypeError
  otherPlacedWords, \* the placedWords of the last run of another WordCloud
  listeners        \* the window's resize listeners, by the height each captured

\* the state of the WordCloud component and of its page
cloudVars ==
  << words, maxWords, colorScheme, height, dimensions, queued, processedWords,
     canvasRef, containerRef, resizePending, pc, index, placed, attempts,
     radius, totalAttempts, placedWords, canvas, placements, dropped, runs,
     history, threw, otherPlacedWords, listeners >>

\* one call of retry (services/utils.js)
VARIABLES
  retryArgs,       \* the arguments of the call: fn is a function, maxAttempts, delay
  retryPc,         \* where the call is: idle, entry, loop, awaitFn, timer, settled
  attempt,         \* the loop variable
  delay,           \* the delay parameter, doubled after each wait
  fnResults,       \* how each call of fn settled, in order
  waits,           \* the timeouts passed to setTimeout, in order
  retryOutcome     \* how the promise of retry settled

retryVars ==
  << retryArgs, retryPc, attempt, delay, fnResults, waits, retryOutcome >>

\* useMultipleVideos (hooks/useVideoData.js)
VARIABLES
  state,           \* videos, loading, errors and sessionIds of the hook
  pending,         \* the analyzeVideo requests in flight
  issued,          \* requests issued so far
  removedIds       \* ids removed and not added again since

videosVars == << state, pending, issued, removedIds >>

\* useVideoData (hooks/useVideoData.js)
VARIABLES
  videoState,      \* loading, videoData, error, lastVideoId, sessionId of the hook
  analyses,        \* the analyzeVideo requests in flight
  analysesIssued,  \* requests issued so far
  anyFailed        \* a request has been rejected

videoDataVars == << videoState, analyses, analysesIssued, anyFailed >>

\* useTrendingCategories (hooks/useTrendingData.js)
VARIABLES
  catState,        \* categories, loading and error of the hook
  catRequests,     \* the getCategories requests in flight
  catIssued,       \* requests issued so far
  catAuto,         \* requests issued by the auto-load effect so far
  effectDeps       \* categories and loading of the render whose effect ran last

categoriesVars == << catState, catRequests, catIssued, catAuto, effectDeps >>

\* the state of the helpers and hooks outside the component
otherVars == << categoriesVars, videoDataVars, videosVars, retryVars >>

vars == << cloudVars, otherVars >>

loopVars ==
  << index, placed, attempts, radius, totalAttempts, placedWords, placements,
     dropped >>
propVars == << words, maxWords, colorScheme, height >>

NoQueued == [set |-> FALSE, width |-> 0, height |-> 0]

\* ------------------------------------------------------------------------
\* Render (lines 82-116, 225-282)
\* ------------------------------------------------------------------------
\* faulty variant: no default for the words parameter
RenderThrowsNoDefault(w) == w.kind \in { "null", "undefined" }

\* words.filter(...) raises a TypeError when words is null
RenderThrows(w) == w.kind = "null"

\* the render returns the placeholder: !words || words.length === 0
IsPlaceholder(w) == Len(WordsOrDefault(w)) = 0

\* the state a render of props (w, mw) commits
Render(w, mw) ==
  IF RenderThrows(w)
  THEN /\ threw' = TRUE
       /\ pc' = "error"
       /\ processedWords' = << >>
       /\ canvasRef' = FALSE
       /\ containerRef' = FALSE
       /\ canvas' = << >>
  ELSE /\ threw' = threw
       /\ pc' = "commit"
       /\ processedWords' = ProcessWords(WordsOrDefault(w), mw)
       /\ canvasRef' = ~IsPlaceholder(w)
       /\ containerRef' = ~IsPlaceholder(w)
       /\ canvas' = IF canvasRef /\ ~IsPlaceholder(w) THEN canvas ELSE << >>

\* the component after its first render
InitCloud ==
  /\ words \in WordsProps
  /\ maxWords \in MaxWordsChoices
  /\ colorScheme = "youtube"
  /\ \E size \in PropSizes :
       /\ height = size.height
       /\ dimensions = [width |-> size.width, height |-> size.height]
  /\ queued = NoQueued
  /\ threw = RenderThrows(words)
  /\ pc = IF RenderThrows(words) THEN "error" ELSE "commit"
  /\ processedWords =
       IF RenderThrows(words) THEN << >>
       ELSE ProcessWords(WordsOrDefault(words), maxWords)
  /\ canvasRef = (~RenderThrows(words) /\ ~IsPlaceholder(words))
  /\ containerRef = (~RenderThrows(words) /\ ~IsPlaceholder(words))
  /\ resizePending = ~RenderThrows(words)
  /\ index = 0
  /\ placed = FALSE
  /\ attempts = 0
  /\ radius = 0
  /\ totalAttempts = 0
  /\ placedWords = << >>
  /\ canvas = << >>
  /\ placements = << >>
  /\ dropped = << >>
  /\ runs = 0
  /\ history = << >>
  /\ otherPlacedWords = << >>
  /\ listeners = << >>

\* no call of retry is under way
NoOutcome == [kind |-> "pending", call |-> 0]
RetryIdle ==
  /\ retryArgs = [isFunction |-> TRUE, maxAttempts |-> 0, delay |-> 0]
  /\ retryPc = "idle"
  /\ attempt = 0
  /\ delay = 0
  /\ fnResults = << >>
  /\ waits = << >>
  /\ retryOutcome = NoOutcome

\* new Map()
EmptyMap == [k \in {} |-> 0]

\* useState of useMultipleVideos (lines 357-362)
InitVideos ==
  /\ state = [videos |-> EmptyMap, loading |-> {}, errors |-> EmptyMap,
              sessionIds |-> EmptyMap]
  /\ pending = {}
  /\ issued = 0
  /\ removedIds = {}

\* null, for videoData and sessionId
NoData == [videoId |-> "", n |-> 0]

\* useState of useVideoData (lines 9-31); null for lastVideoId is ""
InitVideoData ==
  /\ videoState = [loading |-> FALSE, videoData |-> NoData, error |-> "null",
                   lastVideoId |-> "", sessionId |-> NoData]
  /\ analyses = {}
  /\ analysesIssued = 0
  /\ anyFailed = FALSE

\* useState of useTrendingCategories (lines 421-425), before the effects of
\* the first render
InitCategories ==
  /\ catState = [categories |-> "null", loading |-> FALSE, error |-> "null"]
  /\ catRequests = {}
  /\ catIssued = 0
  /\ catAuto = 0
  /\ effectDeps = << >>

\* the hooks before they are used
InitHooks == InitCategories /\ InitVideoData /\ InitVideos

\* the helpers and hooks before they are used
InitOther == RetryIdle /\ InitHooks

Init == InitCloud /\ InitOther

\* one component showing the placeholder, for the runs of helpers and hooks
InitCloudAtRest ==
  /\ InitCloud
  /\ words = [kind |-> "array", list |-> << >>]
  /\ maxWords = defaultMaxWords
  /\ dimensions = [width |-> 50, height |-> 50]

\* ------------------------------------------------------------------------
\* Responsive sizing (lines 119-134)
\* ------------------------------------------------------------------------
\* the object updateDimensions passes to setDimensions for a container cw wide
UpdatedDimensions(cw) ==
  [width |-> Max(minContainerWidth, cw - containerPadding), height |-> height]

\* faulty variant: the effect returns no cleanup, nothing is ever removed
RemoveListenerNever(ls) == ls

\* the cleanup the previous run of the effect returned (line 133):
\* removeEventListener takes off the function that run registered, which is
\* the one added last
RemoveListener(ls) ==
  IF ls = << >> THEN << >> ELSE SubSeq(ls, 1, Len(ls) - 1)

\* window.addEventListener('resize', updateDimensions) (line 132): the
\* closure reads the height of the render that created it
AddListener(ls, h) == Append(ls, h)

\* the effect at mount and after a change of height: the cleanup of the
\* previous run, then updateDimensions(), then addEventListener
ResizeEffect ==
  /\ UNCHANGED << otherPlacedWords, otherVars >>
  /\ pc = "commit"
  /\ resizePending
  /\ resizePending' = FALSE
  /\ \E cw \in ContainerWidths :
       queued' = IF containerRef
                 THEN [set |-> TRUE] @@ UpdatedDimensions(cw)
                 ELSE queued
  /\ listeners' = AddListener(RemoveListener(listeners), height)
  /\ UNCHANGED << propVars, dimensions, processedWords, canvasRef, containerRef,
                  pc, loopVars, canvas, runs, history, threw >>

\* the render React runs for the queued setDimensions
ApplyQueued ==
  /\ UNCHANGED << otherPlacedWords, listeners, otherVars >>
  /\ pc = "ready"
  /\ queued.set
  /\ runs < MaxRuns
  /\ dimensions' = [width |-> queued.width, height |-> queued.height]
  /\ queued' = NoQueued
  /\ Render(words, maxWords)
  /\ UNCHANGED << propVars, resizePending, loopVars, runs, history >>

\* the object the listener l passes to setDimensions for a container cw wide
ListenerDimensions(l, cw) ==
  [width |-> Max(minContainerWidth, cw - containerPadding), height |-> l]

\* a window resize event: every registered listener runs in the order of
\* registration, and React renders once with the last setDimensions
WindowResize ==
  /\ UNCHANGED << otherPlacedWords, listeners, otherVars >>
  /\ pc \in { "ready", "unmounted" }
  /\ ~queued.set
  /\ runs < MaxRuns
  /\ \E cw \in ContainerWidths :
       IF containerRef /\ listeners # << >> /\ pc = "ready"
       THEN /\ dimensions' = ListenerDimensions(listeners[Len(listeners)], cw)
            /\ Render(words, maxWords)
       ELSE UNCHANGED << dimensions, processedWords, canvasRef, containerRef,
                         canvas, pc, threw >>
  /\ UNCHANGED << propVars, queued, resizePending, loopVars, runs, history >>

\* ------------------------------------------------------------------------
\* Props changes
\* ------------------------------------------------------------------------
\* the parent renders the component again, with the same or another word list
SetWords ==
  /\ UNCHANGED << otherPlacedWords, listeners, otherVars >>
  /\ pc = "ready"
  /\ ~queued.set
  /\ runs < MaxRuns
  /\ \E l \in LaterLists \cup { WordsOrDefault(words) } :
       /\ words' = [kind |-> "array", list |-> l]
       /\ Render(words', maxWords)
  /\ UNCHANGED << maxWords, colorScheme, height, dimensions, queued,
                  resizePending, loopVars, runs, history >>

SetColorScheme ==
  /\ UNCHANGED << otherPlacedWords, listeners, otherVars >>
  /\ pc = "ready"
  /\ ~queued.set
  /\ runs < MaxRuns
  /\ \E c \in Schemes \ { colorScheme } : colorScheme' = c
  /\ Render(words, maxWords)
  /\ UNCHANGED << words, maxWords, height, dimensions, queued, resizePending,
                  loopVars, runs, history >>

\* the values the parent passes as height
HeightChoices == { 30, 50 }

\* the parent renders the component with another height: the [height]
\* dependency of the sizing effect changed, so the effect runs again
SetHeight ==
  /\ UNCHANGED << otherPlacedWords, listeners, otherVars >>
  /\ pc = "ready"
  /\ ~queued.set
  /\ runs < MaxRuns
  /\ \E h \in HeightChoices \ { height } : height' = h
  /\ Render(words, maxWords)
  /\ resizePending' = TRUE
  /\ UNCHANGED << words, maxWords, colorScheme, dimensions, queued, loopVars,
                  runs, history >>

\* the parent removes the component: React runs the cleanup of the sizing
\* effect, detaches the refs and drops the pending state updates
Unmount ==
  /\ UNCHANGED << otherPlacedWords, otherVars >>
  /\ pc = "ready"
  /\ pc' = "unmounted"
  /\ listeners' = RemoveListener(listeners)
  /\ canvasRef' = FALSE
  /\ containerRef' = FALSE
  /\ queued' = NoQueued
  /\ UNCHANGED << propVars, dimensions, processedWords, resizePending,
                  loopVars, canvas, runs, history, threw >>

\* ------------------------------------------------------------------------
\* Layout effect (lines 137-223)
\* ------------------------------------------------------------------------
canvasWidth == dimensions.width
canvasHeight == dimensions.height

RECURSIVE MaxOf(_)
MaxOf(s) == IF Len(s) = 1 THEN s[1] ELSE Max(s[1], MaxOf(Tail(s)))
RECURSIVE MinOf(_)
MinOf(s) == IF Len(s) = 1 THEN s[1] ELSE Min(s[1], MinOf(Tail(s)))

sizes == [ i \in 1..Len(processedWords) |-> processedWords[i].size ]
maxSize == MaxOf(sizes)
minSize == MinOf(sizes)
\* maxSize - minSize || 1
sizeRange == IF maxSize - minSize # 0 THEN maxSize - minSize ELSE 1

\* Math.min(canvasWidth, canvasHeight) * 0.08 and * 0.02, in thousandths
maxFontSize == Min(canvasWidth, canvasHeight) * 80
minFontSize == Min(canvasWidth, canvasHeight) * 20

centerX == (canvasWidth * K) \div 2
centerY == (canvasHeight * K) \div 2

\* colorSchemes[colorScheme] || colorSchemes.youtube
colors ==
  IF colorScheme \in DOMAIN colorSchemes THEN colorSchemes[colorScheme]
  ELSE colorSchemes.youtube

\* faulty variant: the weight is not taken relative to the smallest one
FontSizeNoOffset(word) ==
  minFontSize + (word.size * (maxFontSize - minFontSize)) \div sizeRange
\* minFontSize + normalizedSize * (maxFontSize - minFontSize), in thousandths
FontSize(word) ==
  minFontSize + ((word.size - minSize) * (maxFontSize - minFontSize)) \div sizeRange

\* ctx.measureText(text).width under the font `${px}px Inter`, in thousandths:
\* six tenths of the font size for each character
MeasureText(text, px) == 600 * px * Len(text)

\* colors[index % colors.length], index counted from 0
FillStyle(i) == colors[((i - 1) % Len(colors)) + 1]

word == processedWords[index]
fontSize == FontSize(word)
textWidth == MeasureText(word.text, MathRound(fontSize))
textHeight == fontSize

\* faulty variant: the spiral point is the left end of the text, not its centre
candXFromLeft == centerX + CosTable[attempts + 1] * radius
\* faulty variant: the radius counts twice in x
candXTwiceRadius == centerX + CosTable[attempts + 1] * (2 * radius) - textWidth \div 2
\* the candidate of the current attempt
candX == centerX + CosTable[attempts + 1] * radius - textWidth \div 2
\* faulty variant: the spiral point is on the baseline, not at mid-height
candYOnBaseline == centerY + SinTable[attempts + 1] * radius
candY == centerY + SinTable[attempts + 1] * radius + textHeight \div 2

\* faulty variant: the right edge is not checked
InBoundsNoRight(x, y) ==
  /\ x >= 0
  /\ y - textHeight >= 0
  /\ y <= canvasHeight * K

\* faulty variant: the left edge is not checked
InBoundsNoLeft(x, y) ==
  /\ x + textWidth <= canvasWidth * K
  /\ y - textHeight >= 0
  /\ y <= canvasHeight * K

\* x >= 0 && x + textWidth <= canvasWidth && y - textHeight >= 0 && y <= canvasHeight
InBounds(x, y) ==
  /\ x >= 0
  /\ x + textWidth <= canvasWidth * K
  /\ y - textHeight >= 0
  /\ y <= canvasHeight * K

\* faulty variant: the box is stored without the collision margin
WordBoundsNoMargin(x, y) ==
  [ x |-> x, y |-> y - textHeight, width |-> textWidth, height |-> textHeight ]

WordBounds(x, y) ==
  [ x      |-> x - collisionMargin * K,
    y      |-> y - textHeight - collisionMargin * K,
    width  |-> textWidth + 2 * collisionMargin * K,
    height |-> textHeight + 2 * collisionMargin * K ]

\* the rectangle test of placedWords.some(...)
Intersects(a, b) ==
  /\ a.x < b.x + b.width
  /\ a.x + a.width > b.x
  /\ a.y < b.y + b.height
  /\ a.y + a.height > b.y

\* faulty variant: placedWords is one array shared by all WordCloud instances
HasCollisionShared(bounds) ==
  \E b \in { placedWords[i] : i \in 1..Len(placedWords) }
             \cup { otherPlacedWords[i] : i \in 1..Len(otherPlacedWords) } :
    Intersects(bounds, b)
\* placedWords.some(...) over the array of this run
HasCollision(bounds) ==
  \E i \in 1..Len(placedWords) : Intersects(bounds, placedWords[i])

\* faulty variant: the boxes of the previous run are kept
StalePlacedWords == placedWords

\* const placedWords = []
NewPlacedWords == << >>

\* the arguments of a layout run and what it produced
RunArguments ==
  [ words |-> WordsOrDefault(words), maxWords |-> maxWords,
    width |-> canvasWidth, height |-> canvasHeight, colorScheme |-> colorScheme ]
RunRecord(p, d) ==
  [ in |-> RunArguments, out |-> [placements |-> p, dropped |-> d],
    others |-> otherPlacedWords ]

\* effect entry: the early return, or the canvas reset and the sizing
LayoutEffect ==
  /\ UNCHANGED << otherPlacedWords, listeners, otherVars >>
  /\ pc = "commit"
  /\ ~resizePending
  /\ runs' = runs + 1
  /\ placements' = << >>
  /\ dropped' = << >>
  /\ totalAttempts' = 0
  /\ IF Len(processedWords) = 0 \/ ~canvasRef
     THEN /\ pc' = "ready"
          /\ history' = Append(history, RunRecord(<< >>, << >>))
          /\ UNCHANGED << canvas, placedWords, index, placed, attempts, radius >>
     ELSE /\ pc' = "placing"
          /\ canvas' = << >>
          /\ placedWords' = NewPlacedWords
          /\ index' = 1
          /\ placed' = FALSE
          /\ attempts' = 0
          /\ radius' = 0
          /\ UNCHANGED history
  /\ UNCHANGED << propVars, dimensions, queued, processedWords, canvasRef,
                  containerRef, resizePending, threw >>

\* faulty variant: the new box takes the place of the stored ones
PushPlacedWordReplacing(bounds) == << bounds >>
\* placedWords.push(wordBounds)
PushPlacedWord(bounds) == Append(placedWords, bounds)

\* faulty variant: the loop goes on after the word has been placed
LoopContinuesAfterPlaced == attempts < maxAttempts
\* the while condition
LoopContinues == ~placed /\ attempts < maxAttempts

\* faulty variant: forEach stops at the first word the loop gave up on
HasNextWordUnlessDropped == placed /\ index < Len(processedWords)
\* forEach has another element to call back with
HasNextWord == index < Len(processedWords)

\* one iteration of the while loop
Attempt ==
  /\ UNCHANGED << otherPlacedWords, listeners, otherVars >>
  /\ pc = "placing"
  /\ LoopContinues
  /\ IF InBounds(candX, candY) /\ ~HasCollision(WordBounds(candX, candY))
     THEN /\ canvas' = Append(canvas,
                         [ text |-> word.text, x |-> candX, y |-> candY,
                           font |-> MathRound(fontSize), fillStyle |-> FillStyle(index) ])
          /\ placedWords' = PushPlacedWord(WordBounds(candX, candY))
          /\ placements' = Append(placements,
                         [ text |-> word.text, x |-> candX, y |-> candY,
                           fontSize |-> fontSize, color |-> FillStyle(index),
                           src |-> word.src, attempt |-> attempts ])
          /\ placed' = TRUE
     ELSE UNCHANGED << canvas, placedWords, placements, placed >>
  /\ attempts' = attempts + 1
  /\ radius' = radius + radiusStep
  /\ totalAttempts' = totalAttempts + 1
  /\ UNCHANGED << propVars, dimensions, queued, processedWords, canvasRef,
                  containerRef, resizePending, pc, index, dropped, runs,
                  history, threw >>

\* the loop has ended: the callback returns and forEach moves on
NextWord ==
  /\ UNCHANGED << otherPlacedWords, listeners, otherVars >>
  /\ pc = "placing"
  /\ ~LoopContinues
  /\ dropped' = IF placed THEN dropped
                ELSE Append(dropped, [text |-> word.text, size |-> word.size,
                                      src |-> word.src])
  /\ IF HasNextWord
     THEN /\ index' = index + 1
          /\ placed' = FALSE
          /\ attempts' = 0
          /\ radius' = 0
          /\ UNCHANGED << pc, history >>
     ELSE /\ pc' = "ready"
          /\ history' = Append(history, RunRecord(placements, dropped'))
          /\ UNCHANGED << index, placed, attempts, radius >>
  /\ UNCHANGED << propVars, dimensions, queued, processedWords, canvasRef,
                  containerRef, resizePending, totalAttempts, placedWords,
                  canvas, placements, runs, threw >>

Next ==
  \/ ResizeEffect
  \/ LayoutEffect
  \/ Attempt
  \/ NextWord
  \/ ApplyQueued
  \/ WindowResize
  \/ SetWords
  \/ SetColorScheme

Spec == Init /\ [][Next]_vars

\* surface and text of a second WordCloud on the same page
OtherCloudSizes == { [width |-> 50, height |-> 50] }
OtherCloudText == "video"

\* the box the layout effect of a WordCloud with the single term text stores:
\* minimum font size (normalizedSize 0), accepted at attempt 0 at the centre
OtherCloudBounds(size, text) ==
  LET fs == Min(size.width, size.height) * 20
      tw == MeasureText(text, MathRound(fs))
      x  == (size.width * K) \div 2 - tw \div 2
      y  == (size.height * K) \div 2 + fs \div 2
  IN  [ x      |-> x - collisionMargin * K,
        y      |-> y - fs - collisionMargin * K,
        width  |-> tw + 2 * collisionMargin * K,
        height |-> fs + 2 * collisionMargin * K ]

\* the layout effect of the other WordCloud runs, between two steps of this
\* one's render cycle: const placedWords = [] and one push, in its own scope
OtherCloudLayout ==
  /\ pc # "placing"
  /\ \E size \in OtherCloudSizes :
       otherPlacedWords' = << OtherCloudBounds(size, OtherCloudText) >>
  /\ UNCHANGED << propVars, dimensions, queued, processedWords, canvasRef,
                  containerRef, resizePending, pc, loopVars, canvas, runs,
                  history, threw, listeners, otherVars >>

NextClouds ==
  \/ Next
  \/ OtherCloudLayout

\* two WordCloud instances on one page, this one mounted with at most one word
InitClouds == Init /\ Len(words.list) <= 1
SpecClouds == InitClouds /\ [][NextClouds]_vars

\* the component over its whole life: height changes and the unmount
NextLifecycle ==
  \/ Next
  \/ SetHeight
  \/ Unmount

InitLifecycle == Init /\ Len(words.list) <= 1
SpecLifecycle == InitLifecycle /\ [][NextLifecycle]_vars

TypeOK ==
  /\ pc \in { "commit", "placing", "ready", "error", "unmounted" }
  /\ attempts \in 0..maxAttempts
  /\ radius = radiusStep * attempts
  /\ runs \in 0..MaxRuns

\* ------------------------------------------------------------------------
\* Properties
\* ------------------------------------------------------------------------
\* a layout run is under way or has ended, and placements is its result so far
InRun == pc \in { "placing", "ready" } /\ runs > 0

\* the footprint of a placed term grown by the collision margin on all sides
InflatedBox(p) ==
  LET w == MeasureText(p.text, MathRound(p.fontSize))
  IN  [ x      |-> p.x - collisionMargin * K,
        y      |-> p.y - p.fontSize - collisionMargin * K,
        width  |-> w + 2 * collisionMargin * K,
        height |-> p.fontSize + 2 * collisionMargin * K ]

\* a box lies within the surface grown by m pixels on every side
BoxWithin(b, m) ==
  /\ b.x >= 0 - m * K
  /\ b.y >= 0 - m * K
  /\ b.x + b.width <= (canvasWidth + m) * K
  /\ b.y + b.height <= (canvasHeight + m) * K

\* C1: the margin-inflated bounding boxes of any two distinct placed terms do
\* not intersect under the rectangle test of the collision check, at every
\* point of a layout run and at its end.
C1_NoOverlap ==
  InRun =>
    /\ \A i, j \in 1..Len(placements) :
         i # j => ~Intersects(InflatedBox(placements[i]), InflatedBox(placements[j]))
    /\ pc = "placing" =>
         \A i, j \in 1..Len(placedWords) :
           i # j => ~Intersects(placedWords[i], placedWords[j])

\* C1 witness: a run has ended with two terms placed, the second one away from
\* the centre because the centre was taken.
C1_Witness ==
  /\ pc = "ready"
  /\ Len(placements) = 2
  /\ placements[2].x + MeasureText(placements[2].text, MathRound(placements[2].fontSize)) \div 2
       # centerX

\* C2 as claimed: every box stored in the collision index lies within
\* [0, width] x [0, height].
C2_BoxInsideSurface ==
  pc = "placing" => \A i \in 1..Len(placedWords) : BoxWithin(placedWords[i], 0)

\* C2 amended: every box stored in the collision index lies within the surface
\* grown by the collision margin, [-5, width + 5] x [-5, height + 5], and the
\* text rectangle it was inflated from lies within [0, width] x [0, height].
C2_BoxInsideGrownSurface ==
  /\ pc = "placing" =>
       \A i \in 1..Len(placedWords) : BoxWithin(placedWords[i], collisionMargin)
  /\ InRun =>
       \A i \in 1..Len(placements) :
         /\ BoxWithin(InflatedBox(placements[i]), collisionMargin)
         /\ BoxWithin([ x |-> placements[i].x,
                        y |-> placements[i].y - placements[i].fontSize,
                        width |-> MeasureText(placements[i].text,
                                              MathRound(placements[i].fontSize)),
                        height |-> placements[i].fontSize ], 0)

\* C2 witness: a placed term whose stored box crosses an edge of the surface.
C2_Witness ==
  /\ pc = "placing"
  /\ \E i \in 1..Len(placedWords) : ~BoxWithin(placedWords[i], 0)

\* C3: two completed layout runs with the same word list, surface width and
\* height, maxWords and colour scheme have the same result: the same terms
\* placed in the same order at the same positions with the same font sizes and
\* colours, and the same terms dropped, whatever ran before either of them.
C3_Deterministic ==
  \A i, j \in 1..Len(history) :
    history[i].in = history[j].in => history[i].out = history[j].out

\* C3 witness: a run that placed two terms was repeated with the same
\* arguments, the first time after a run on another surface that had placed
\* terms of its own, the second time after itself.
C3_Witness ==
  /\ pc = "ready"
  /\ Len(history) = 3
  /\ history[1].in # history[2].in
  /\ history[2].in = history[3].in
  /\ Len(history[1].out.placements) >= 1
  /\ Len(history[3].out.placements) = 2

\* the words prop as the component reads it
inputWords == WordsOrDefault(words)

\* positions of the words prop whose word satisfies P
Positions(P(_)) == { i \in 1..Len(inputWords) : P(inputWords[i]) }

\* positions in the words prop of the terms of a sequence of terms
SrcSet(s) == { s[i].src : i \in 1..Len(s) }

\* an input term with a keyword and with count > 0 or relevance_score > 0
NamedAndWeighted(w) == w.keyword # "" /\ HasWeight(w)

\* C4 as claimed: at the end of a run, placed plus dropped terms number
\* min(maxTerms, number of input terms with weight > 0), the weight test being
\* that of the filter (count > 0 or relevance_score > 0).
C4_CountOfWeighted ==
  pc = "ready" /\ runs > 0 =>
    Len(placements) + Len(dropped) = Min(maxWords, Cardinality(Positions(HasWeight)))

\* C4 amended: at the end of a run with maxTerms >= 0, placed plus dropped
\* terms number min(maxTerms, number of input terms that have a non-empty
\* keyword and count > 0 or relevance_score > 0); the placed terms number at
\* most min(maxTerms, number of input terms); and every term of the ranked
\* list is either placed or dropped, never both and never twice.
C4_CountOfKept ==
  pc = "ready" /\ runs > 0 /\ maxWords >= 0 =>
    /\ Len(placements) + Len(dropped) = Min(maxWords, Cardinality(Positions(NamedAndWeighted)))
    /\ Len(placements) <= Min(maxWords, Len(inputWords))
    /\ SrcSet(placements) \cup SrcSet(dropped) = SrcSet(processedWords)
    /\ SrcSet(placements) \cap SrcSet(dropped) = { }
    /\ Cardinality(SrcSet(placements)) = Len(placements)
    /\ Cardinality(SrcSet(dropped)) = Len(dropped)

\* C4 witness: a run over two input terms has ended with one of them placed
\* and the other dropped.
C4_Witness ==
  /\ pc = "ready"
  /\ Len(placements) = 1
  /\ Len(dropped) = 1
  /\ Len(inputWords) = 2

\* C5 as claimed: when all terms of a run have the same weight, every placed
\* term has font size maxFontSize = 0.08 * min(width, height).
C5_FlatIsMaxFont ==
  InRun /\ (\A i, j \in 1..Len(processedWords) :
              processedWords[i].size = processedWords[j].size) =>
    \A i \in 1..Len(placements) : placements[i].fontSize = maxFontSize

\* C6 as claimed: font size never increases along the processing order; a term
\* ranked before another by the descending sort (its count || relevance_score
\* is the larger) has a font size at least as large.
C6_FontMonotoneInRank ==
  InRun =>
    \A i, j \in 1..Len(placements) :
      (i < j /\ SortKey(inputWords[placements[i].src])
                  > SortKey(inputWords[placements[j].src]))
        => placements[i].fontSize >= placements[j].fontSize

\* C7 as claimed: every term that is attempted for placement has a strictly
\* positive weight.
C7_AttemptedWeightPositive ==
  pc = "placing" => word.size > 0

\* the comparator's value of the input term a ranked or placed term came from
KeyOf(t) == SortKey(inputWords[t.src])

\* rank of a placed or dropped term in processedWords
RankOf(t) == CHOOSE r \in 1..Len(processedWords) : processedWords[r].src = t.src

\* C8: the ranked list is in descending order of weight (count ||
\* relevance_score), terms of equal weight in their input order; the term being
\* attempted is the next of the ranked list, all terms before it having been
\* placed or dropped; and placements are in rank order.
C8_RankOrder ==
  /\ pc # "error" =>
       \A i, j \in 1..Len(processedWords) :
         i < j =>
           /\ KeyOf(processedWords[i]) >= KeyOf(processedWords[j])
           /\ KeyOf(processedWords[i]) = KeyOf(processedWords[j])
                => processedWords[i].src < processedWords[j].src
  /\ pc = "placing" =>
       /\ index \in 1..Len(processedWords)
       /\ SrcSet(placements) \cup SrcSet(dropped) =
            { processedWords[r].src : r \in 1..(IF placed THEN index ELSE index - 1) }
  /\ InRun =>
       /\ \A i, j \in 1..Len(placements) :
            i < j => RankOf(placements[i]) < RankOf(placements[j])
       /\ \A i, j \in 1..Len(dropped) :
            i < j => RankOf(dropped[i]) < RankOf(dropped[j])

\* C8 witness: a term that came second in the input has been placed first,
\* its weight being the larger; and in an earlier run of the same behaviour
\* two different terms of equal weight were placed, the one that came first in
\* the input first.
C8_Witness ==
  /\ pc = "ready"
  /\ Len(placements) = 2
  /\ placements[1].src = 2
  /\ KeyOf(placements[1]) > KeyOf(placements[2])
  /\ \E i \in 1..Len(history) :
       LET h == history[i]
       IN  /\ Len(h.out.placements) = 2
           /\ h.out.placements[1].src = 1
           /\ h.out.placements[1].text # h.out.placements[2].text
           /\ SortKey(h.in.words[1]) = SortKey(h.in.words[2])

C10_EmptyInputIsQuiet ==
  (words.kind = "undefined" \/ (words.kind = "array" /\ Len(words.list) = 0)) =>
    /\ ~threw
    /\ pc \in { "commit", "ready" }
    /\ processedWords = << >>
    /\ (pc = "ready" /\ runs > 0) => placements = << >> /\ dropped = << >>

\* C10 witness: the layout effect has run for an undefined word list.
C10_Witness ==
  /\ words.kind = "undefined"
  /\ pc = "ready"
  /\ runs > 0

\* ------------------------------------------------------------------------
\* Font sizes
\* ------------------------------------------------------------------------
\* the smallest and the largest weight the scaler reads in the ranked terms
C11_MinWeight ==
  CHOOSE m \in { processedWords[i].size : i \in DOMAIN processedWords } :
    \A i \in DOMAIN processedWords : m <= processedWords[i].size
C11_MaxWeight ==
  CHOOSE m \in { processedWords[i].size : i \in DOMAIN processedWords } :
    \A i \in DOMAIN processedWords : m >= processedWords[i].size
C11_MinFont == 20 * Min(dimensions.width, dimensions.height)
C11_MaxFont == 80 * Min(dimensions.width, dimensions.height)
\* f is the interpolated size of weight s, to the last fixed-point digit
C11_Interpolates(s, f) ==
  LET span == C11_MaxWeight - C11_MinWeight
      err  == (s - C11_MinWeight) * (C11_MaxFont - C11_MinFont)
                - (f - C11_MinFont) * span
  IN  /\ 0 <= err /\ err < span
      /\ C11_MinFont <= f /\ f <= C11_MaxFont
      /\ (s = C11_MaxWeight => f = C11_MaxFont)
      /\ (s = C11_MinWeight => f = C11_MinFont)

\* C11: when the weights of a run are not all equal, the font size of each
\* term is minFontSize + (weight - minWeight) / (maxWeight - minWeight) *
\* (maxFontSize - minFontSize), with minFontSize = 0.02 * min(width, height)
\* and maxFontSize = 0.08 * min(width, height); it lies between the two, the
\* largest weight gets maxFontSize and the smallest minFontSize.
C11_Interpolation ==
  (InRun /\ Len(processedWords) > 0 /\ canvasRef
     /\ C11_MaxWeight # C11_MinWeight) =>
    /\ \A i \in DOMAIN placements :
         \A j \in DOMAIN processedWords :
           processedWords[j].src = placements[i].src =>
             C11_Interpolates(processedWords[j].size, placements[i].fontSize)
    /\ (pc = "placing" => C11_Interpolates(word.size, fontSize))

\* a finished run that placed two terms of different weights at different sizes
C11_Witness ==
  /\ pc = "ready" /\ Len(placements) = 2
  /\ C11_MaxWeight # C11_MinWeight
  /\ placements[1].fontSize = C11_MaxFont
  /\ placements[2].fontSize = C11_MinFont
  /\ C11_MinFont < C11_MaxFont

\* ------------------------------------------------------------------------
\* The placement search
\* ------------------------------------------------------------------------
\* attempts spent on the placed terms: the accepted attempt and those before it
RECURSIVE C12_AttemptsOfPlaced(_)
C12_AttemptsOfPlaced(i) ==
  IF i = 0 THEN 0 ELSE C12_AttemptsOfPlaced(i - 1) + placements[i].attempt + 1

\* during and after a run: no term has had more than maxAttempts attempts, the
\* run has made at most n * maxAttempts of them (all maxAttempts for a dropped
\* term), nothing has been thrown, a dropped term is not among the drawn ones,
\* and at the end every ranked term has been placed or dropped
C12_Bounded ==
  (InRun /\ Len(processedWords) > 0 /\ canvasRef) =>
    /\ attempts <= 50
    /\ totalAttempts <= 50 * Len(processedWords)
    /\ totalAttempts = C12_AttemptsOfPlaced(Len(placements)) + 50 * Len(dropped)
                         + (IF pc = "placing" /\ ~placed THEN attempts ELSE 0)
    /\ ~threw
    /\ Len(canvas) = Len(placements)
    /\ SrcSet(dropped) \cap SrcSet(placements) = { }
    /\ (pc = "ready" =>
          SrcSet(dropped) \cup SrcSet(placements) = SrcSet(processedWords))

\* giving up on a term that is not the last one moves on to the next term
C12_DropMovesOn ==
  (pc = "placing" /\ Len(dropped') > Len(dropped) /\ index < Len(processedWords)) =>
    (pc' = "placing" /\ index' = index + 1 /\ attempts' = 0 /\ ~placed')

\* progress of a run: terms done with, then attempts made for the current one
C12_Measure == (index - 1) * 51 + attempts

\* in a run under way the next step of the loop is defined (a term to work
\* on, a direction for the attempt), every step raises the measure, and the
\* measure is bounded
C12_Advances ==
  pc = "placing" =>
    /\ index \in DOMAIN processedWords
    /\ (LoopContinues => attempts + 1 \in DOMAIN CosTable \cap DOMAIN SinTable)
    /\ C12_Measure <= 51 * Len(processedWords)
    /\ (pc' = "placing" => C12_Measure' > C12_Measure)
    /\ pc' \in { "placing", "ready" }

\* C12: each term gets at most 50 attempts; a term whose attempts are all
\* rejected is dropped without an error and without being drawn, the terms
\* ranked after it are still attempted, a run over n terms makes at most
\* n * 50 attempts, and every run ends: its next step is always defined, each
\* step raises a bounded measure, and it leaves the loop only for the ready
\* state.
C12_BoundedSearch ==
  /\ []C12_Bounded
  /\ [][C12_DropMovesOn]_vars
  /\ [][C12_Advances]_vars

\* a finished run dropped its first-ranked term after 50 attempts and placed
\* the term ranked after it
C12_Witness ==
  /\ pc = "ready" /\ runs > 0
  /\ Len(dropped) = 1 /\ Len(placements) = 1
  /\ RankOf(dropped[1]) < RankOf(placements[1])
  /\ totalAttempts > 50

\* ------------------------------------------------------------------------
\* Surface sizes
\* ------------------------------------------------------------------------
\* C13 as claimed: on a surface with width <= 0 or height <= 0 the run makes
\* no placement attempt and places and draws no term.
C13_InvalidSizeIsQuiet ==
  (InRun /\ (dimensions.width <= 0 \/ dimensions.height <= 0)) =>
    /\ totalAttempts = 0
    /\ placements = << >>
    /\ canvas = << >>

\* ------------------------------------------------------------------------
\* Resizing
\* ------------------------------------------------------------------------
\* a change of the surface size commits a render whose layout effect is due
C14_SizeChangeTriggers ==
  dimensions' # dimensions => (pc' = "commit" /\ ~resizePending')

\* a run that begins placing begins with nothing placed, drawn or counted
C14_StartsFromEmpty ==
  (pc = "commit" /\ pc' = "placing") =>
    /\ placedWords' = << >> /\ canvas' = << >> /\ placements' = << >>
    /\ dropped' = << >>
    /\ index' = 1 /\ attempts' = 0 /\ radius' = 0 /\ ~placed'

\* a later run on the terms and the size of the run at mount, which had no
\* layout before it, has the result of that run
C14_AsTheFirstRun ==
  \A j \in 1..Len(history) :
    history[j].in = history[1].in => history[j].out = history[1].out

\* C14: every change of the surface size triggers a full re-layout: the
\* collision set starts empty, nothing of the previous layout is kept, and the
\* placements are those of a fresh run on the same terms and the new size.
C14_FullRelayout ==
  /\ [][C14_SizeChangeTriggers]_vars
  /\ [][C14_StartsFromEmpty]_vars
  /\ []C14_AsTheFirstRun

\* the surface was resized away from its size at mount and back again, and the
\* third run placed the two terms where the first run, at mount, had
C14_Witness ==
  /\ pc = "ready" /\ Len(history) = 3
  /\ history[2].in.width # history[1].in.width
  /\ history[2].in.words = history[1].in.words
  /\ history[3].in = history[1].in
  /\ dimensions.width = history[1].in.width
  /\ Len(placements) = 2
  /\ Len(history[2].out.placements) = 2
  /\ history[2].out # history[1].out

\* C15 as claimed: the layout runs again only when something changed; no run
\* follows a run with the same terms, surface size and configuration (a resize
\* event that reports the same container size, or a re-render with the same
\* props, starts none).
C15_NoRedundantRun ==
  \A i \in 1..(Len(history) - 1) :
    (history[i + 1].out.placements # << >> \/ history[i + 1].out.dropped # << >>)
      => history[i].in # history[i + 1].in

\* ------------------------------------------------------------------------
\* Lifecycle
\* ------------------------------------------------------------------------
\* C16 as claimed: every trigger leads to a computation that completes, and
\* once it has (Ready) the canvas holds the result of that most recent
\* computation: the terms its run placed, where it placed them.
C16_ReadyHoldsLatest ==
  (pc = "ready" /\ Len(history) > 0) =>
    LET latest == history[Len(history)].out.placements
    IN  /\ Len(canvas) = Len(latest)
        /\ \A i \in 1..Len(latest) :
             /\ i <= Len(canvas)
             /\ canvas[i].text = latest[i].text
             /\ canvas[i].x = latest[i].x
             /\ canvas[i].y = latest[i].y

\* ------------------------------------------------------------------------
\* Several clouds
\* ------------------------------------------------------------------------
\* a run of the other cloud changes nothing this cloud has placed or drawn
C17_OtherRunLeavesThisCloud ==
  otherPlacedWords' # otherPlacedWords =>
    UNCHANGED << placedWords, canvas, placements, dropped, history >>

\* runs of this cloud with the same arguments have the same result, whether
\* or not the other cloud had laid out its terms before them
C17_SameResultWithOthers ==
  \A i, j \in 1..Len(history) :
    (history[i].in = history[j].in /\ history[i].others # history[j].others)
      => history[i].out = history[j].out

\* C17: clouds on one page share no layout state: what one cloud places is
\* the same whatever another cloud has laid out before, after or between its
\* runs.
C17_NoSharedLayoutState ==
  /\ []C17_SameResultWithOthers
  /\ [][C17_OtherRunLeavesThisCloud]_vars

\* this cloud placed a term at the centre of its 50 x 50 surface twice: once
\* before the other cloud had run, and once after the other cloud had stored a
\* box over the centre of its own 50 x 50 surface
C17_Witness ==
  /\ pc = "ready" /\ Len(history) >= 2
  /\ otherPlacedWords # << >>
  /\ \E i, j \in 1..Len(history) :
       /\ i < j
       /\ history[i].in = history[j].in
       /\ history[i].others = << >>
       /\ history[j].others # << >>
       /\ history[j].in.width = 50 /\ history[j].in.height = 50
       /\ Len(history[j].out.placements) >= 1
       /\ history[j].out.placements[1].attempt = 0

\* ------------------------------------------------------------------------
\* Candidates
\* ------------------------------------------------------------------------
\* the text rectangle w wide and h high with baseline start (x, y) lies on a
\* surface width x height: 0 <= left, right <= width, 0 <= top, bottom <= height
C18_RectInside(x, y, w, h) ==
  /\ 0 <= x /\ x + w <= dimensions.width * K
  /\ 0 <= y - h /\ y <= dimensions.height * K

\* every placed term's text rectangle is on the surface
C18_PlacedInside ==
  InRun =>
    \A i \in DOMAIN placements :
      LET p == placements[i]
      IN  C18_RectInside(p.x, p.y,
                         600 * ((p.fontSize + 500) \div 1000) * Len(p.text),
                         p.fontSize)

\* an attempt whose candidate leaves the surface places and draws nothing
C18_OutsideIsRejected ==
  (pc = "placing" /\ attempts' = attempts + 1
     /\ ~C18_RectInside(candX, candY, textWidth, textHeight)) =>
    (~placed' /\ UNCHANGED << placements, placedWords, canvas >>)

\* C18: a candidate whose text rectangle (measured width by font-size height,
\* not inflated) exceeds the surface on any side is rejected, so every placed
\* term's text rectangle has 0 <= left, right <= width, 0 <= top and
\* bottom <= height.
C18_BoundsCheck ==
  /\ []C18_PlacedInside
  /\ [][C18_OutsideIsRejected]_vars

\* a term has been placed, and the candidate now examined for the next term
\* leaves the surface
C18_Witness ==
  /\ pc = "placing" /\ LoopContinues
  /\ Len(placements) >= 1
  /\ attempts > 0
  /\ ~C18_RectInside(candX, candY, textWidth, textHeight)
  /\ textWidth <= dimensions.width * K

\* |v|
C19_Abs(v) == IF v < 0 THEN -v ELSE v

\* the direction of attempt i + 1 is that of attempt i turned by 0.5 rad
\* (cos 0.5 = 0.878, sin 0.5 = 0.479), and attempt 0 points along the x axis
C19_AngleStep ==
  /\ CosTable[1] = 1000 /\ SinTable[1] = 0
  /\ \A i \in 1..49 :
       /\ C19_Abs(1000 * CosTable[i + 1]
                    - (878 * CosTable[i] - 479 * SinTable[i])) <= 1500
       /\ C19_Abs(1000 * SinTable[i + 1]
                    - (479 * CosTable[i] + 878 * SinTable[i])) <= 1500

\* the centre of a text rectangle w wide and h high with baseline start (x, y)
\* is the surface centre plus 2 * i along the direction of attempt i
C19_CentreAt(x, y, w, h, i) ==
  /\ x + w \div 2 = (dimensions.width * 1000) \div 2 + CosTable[i + 1] * (2 * i)
  /\ y - h \div 2 = (dimensions.height * 1000) \div 2 + SinTable[i + 1] * (2 * i)

\* the candidate under examination and every accepted candidate are on the spiral
C19_OnSpiral ==
  /\ C19_AngleStep
  /\ (pc = "placing" /\ LoopContinues) =>
       (radius = 2 * attempts
          /\ C19_CentreAt(candX, candY, textWidth, textHeight, attempts))
  /\ InRun =>
       \A k \in DOMAIN placements :
         LET p == placements[k]
         IN  C19_CentreAt(p.x, p.y,
                          600 * ((p.fontSize + 500) \div 1000) * Len(p.text),
                          p.fontSize, p.attempt)

\* within a run the attempt index either goes up by one with the radius up by
\* two, whatever became of the candidate, or goes back to 0 for the next term
C19_Steps ==
  (pc = "placing" /\ pc' = "placing" /\ << index, attempts >>' # << index, attempts >>) =>
    \/ index' = index /\ attempts' = attempts + 1 /\ radius' = radius + 2
    \/ index' = index + 1 /\ attempts' = 0 /\ radius' = 0

\* C19: at attempt i, counted from 0, the centre of the candidate text
\* rectangle is surfaceCentre + (cos(0.5 i), sin(0.5 i)) * 2i; radius and angle
\* grow by 2 and 0.5 rad on every attempt, and each term starts again at i = 0.
C19_FixedSpiral ==
  /\ []C19_OnSpiral
  /\ [][C19_Steps]_vars

\* the first term was accepted at the centre, the second started again at
\* attempt 0 and was accepted further out on the spiral
C19_Witness ==
  /\ pc = "ready" /\ Len(placements) = 2
  /\ placements[1].attempt = 0
  /\ placements[2].attempt >= 2
  /\ placements[2].attempt < totalAttempts - 1

\* ------------------------------------------------------------------------
\* First fit
\* ------------------------------------------------------------------------
\* measured width of a placed term
C20_Width(p) == 600 * ((p.fontSize + 500) \div 1000) * Len(p.text)

\* where attempt i puts the baseline start of the placed term p
C20_X(p, i) ==
  (dimensions.width * 1000) \div 2 + CosTable[i + 1] * (2 * i) - C20_Width(p) \div 2
C20_Y(p, i) ==
  (dimensions.height * 1000) \div 2 + SinTable[i + 1] * (2 * i) + p.fontSize \div 2

\* the candidate of attempt i for p is within bounds
C20_Within(p, i) ==
  /\ 0 <= C20_X(p, i) /\ C20_X(p, i) + C20_Width(p) <= dimensions.width * 1000
  /\ 0 <= C20_Y(p, i) - p.fontSize /\ C20_Y(p, i) <= dimensions.height * 1000

\* the candidate of attempt i for p, inflated by 5 px, meets the inflated box
\* of the earlier placement q
C20_Meets(p, i, q) ==
  /\ C20_X(p, i) - 5000 < q.x - 5000 + C20_Width(q) + 10000
  /\ C20_X(p, i) - 5000 + C20_Width(p) + 10000 > q.x - 5000
  /\ C20_Y(p, i) - p.fontSize - 5000 < q.y - q.fontSize - 5000 + q.fontSize + 10000
  /\ C20_Y(p, i) - p.fontSize - 5000 + p.fontSize + 10000 > q.y - q.fontSize - 5000

\* the candidate of attempt i for the k-th placement passes both tests
C20_Fits(k, i) ==
  /\ C20_Within(placements[k], i)
  /\ \A j \in 1..(k - 1) : ~C20_Meets(placements[k], i, placements[j])

\* every placed term sits at the first attempt that fits, and is placed once
C20_LowestFit ==
  InRun =>
    /\ \A k \in DOMAIN placements :
         /\ placements[k].attempt \in 0..49
         /\ C20_Fits(k, placements[k].attempt)
         /\ \A i \in 0..(placements[k].attempt - 1) : ~C20_Fits(k, i)
    /\ Cardinality(SrcSet(placements)) = Len(placements)

\* once the term is placed no further attempt is made for it
C20_StopsWhenPlaced ==
  (pc = "placing" /\ placed) =>
    (totalAttempts' = totalAttempts /\ placements' = placements /\ canvas' = canvas)

\* C20: a term is placed at the lowest-index attempt whose candidate is within
\* bounds and free of collision with the boxes placed so far; every attempt
\* before it failed one of the two tests; no attempt follows the placement and
\* a term is placed at most once.
C20_FirstFit ==
  /\ []C20_LowestFit
  /\ [][C20_StopsWhenPlaced]_vars

\* the second term's attempt 0 was within bounds but met the first term's box,
\* and it was placed at a later attempt
C20_Witness ==
  /\ pc = "ready" /\ Len(placements) = 2
  /\ placements[2].attempt >= 1
  /\ C20_Within(placements[2], 0)
  /\ C20_Meets(placements[2], 0, placements[1])
  /\ Len(dropped) = 0

\* ------------------------------------------------------------------------
\* The collision set
\* ------------------------------------------------------------------------
\* during a run placedWords holds the inflated boxes of the terms placed so
\* far, one for each and in placement order
C21_BoxesOfPlaced ==
  pc = "placing" =>
    /\ Len(placedWords) = Len(placements)
    /\ \A i \in 1..Len(placements) :
         /\ i <= Len(placedWords)
         /\ placedWords[i] = InflatedBox(placements[i])

\* a run starts with an empty set
C21_EmptyAtStart ==
  (pc # "placing" /\ pc' = "placing") => placedWords' = << >>

\* a step of a run leaves the set alone or, on an acceptance, adds one box
\* behind the boxes it holds; a rejection and a drop leave it alone
C21_GrowsByAcceptance ==
  pc = "placing" =>
    /\ \/ placedWords' = placedWords
       \/ /\ ~placed /\ placed'
          /\ Len(placedWords') = Len(placedWords) + 1
          /\ SubSeq(placedWords', 1, Len(placedWords)) = placedWords
    /\ (placed' = placed => placedWords' = placedWords)
    /\ (Len(dropped') > Len(dropped) => placedWords' = placedWords)

\* C21: at every point of a run the collision set holds exactly the inflated
\* boxes of the terms placed so far in this run, in placement order; it starts
\* empty, grows by one box on each acceptance, keeps every box as added, and a
\* rejected attempt or a dropped term leaves it unchanged.
C21_CollisionSet ==
  /\ []C21_BoxesOfPlaced
  /\ [][C21_EmptyAtStart]_vars
  /\ [][C21_GrowsByAcceptance]_vars

\* the second term of a run has had attempts rejected and the set still holds
\* the one box of the first term; an earlier run had left two boxes behind
C21_Witness ==
  /\ pc = "placing" /\ index = 2 /\ ~placed /\ attempts >= 2
  /\ Len(placedWords) = 1
  /\ runs >= 2
  /\ Len(history[Len(history)].out.placements) = 2

\* ------------------------------------------------------------------------
\* The first term
\* ------------------------------------------------------------------------
\* font size and measured width of the highest-ranked term
C22_FirstFont == FontSize(processedWords[1])
C22_FirstWidth ==
  600 * ((C22_FirstFont + 500) \div 1000) * Len(processedWords[1].text)

\* its text rectangle is no wider and no taller than the surface
C22_FirstFitsSurface ==
  /\ C22_FirstWidth <= dimensions.width * 1000
  /\ C22_FirstFont <= dimensions.height * 1000

\* the loop has examined attempt 0 of the highest-ranked term
C22_FirstExamined ==
  /\ InRun /\ Len(processedWords) > 0 /\ canvasRef
  /\ (pc = "ready" \/ index >= 2 \/ attempts >= 1)

\* C22: the highest-ranked term is placed if and only if its text rectangle
\* is no wider than the surface and no taller than it, and then it is accepted
\* at attempt 0 with the rectangle centred on the surface centre.
C22_FirstTermAtCentre ==
  C22_FirstExamined =>
    /\ C22_FirstFitsSurface <=>
         (Len(placements) >= 1 /\ placements[1].src = processedWords[1].src)
    /\ (~C22_FirstFitsSurface =>
          \A k \in DOMAIN placements : placements[k].src # processedWords[1].src)
    /\ C22_FirstFitsSurface =>
         /\ placements[1].attempt = 0
         /\ placements[1].x + C22_FirstWidth \div 2 = (dimensions.width * 1000) \div 2
         /\ placements[1].y - C22_FirstFont \div 2 = (dimensions.height * 1000) \div 2

\* the highest-ranked term was too wide for the surface at mount and was
\* dropped; on the wider surface of this run it has been placed at the centre
C22_Witness ==
  /\ pc = "ready" /\ Len(history) >= 2
  /\ Len(processedWords) > 0 /\ canvasRef
  /\ C22_FirstFitsSurface
  /\ Len(placements) >= 1 /\ placements[1].src = processedWords[1].src
  /\ placements[1].attempt = 0
  /\ \E h \in 1..(Len(history) - 1) :
       /\ history[h].in.words = WordsOrDefault(words)
       /\ history[h].in.maxWords = maxWords
       /\ Len(history[h].out.dropped) >= 1
       /\ history[h].out.dropped[1].src = processedWords[1].src

\* ------------------------------------------------------------------------
\* Reach of the spiral
\* ------------------------------------------------------------------------
\* offset of the centre of a placed term's text rectangle from the surface
\* centre, in hundredths of a pixel
C23_Dx(p) ==
  (p.x + (600 * ((p.fontSize + 500) \div 1000) * Len(p.text)) \div 2
     - (dimensions.width * 1000) \div 2) \div 10
C23_Dy(p) == (p.y - p.fontSize \div 2 - (dimensions.height * 1000) \div 2) \div 10

\* C23: every placed term was accepted at an attempt i in 0..49 and the centre
\* of its text rectangle is 2 * i <= 98 pixels from the surface centre,
\* whatever the surface size (the squared distance is that of 2 * i pixels to
\* the three decimals of the cosine and sine).
C23_WithinReach ==
  InRun =>
    \A k \in DOMAIN placements :
      LET p  == placements[k]
          d2 == C23_Dx(p) * C23_Dx(p) + C23_Dy(p) * C23_Dy(p)
          r  == 2 * p.attempt
      IN  /\ p.attempt \in 0..49
          /\ r <= 98
          /\ d2 <= (r * r) * 10020 + 400 * r + 2
          /\ d2 >= (r * r) * 9980 - 400 * r - 2
          /\ d2 <= 98 * 98 * 10020 + 400 * 98 + 2

\* on a surface 300 or more wide a term has been placed away from the centre
C23_Witness ==
  /\ pc = "ready" /\ dimensions.width >= 300
  /\ Len(placements) = 2
  /\ placements[2].attempt >= 3
  /\ C23_Dx(placements[2]) # 0

\* ------------------------------------------------------------------------
\* The canvas after a change of words
\* ------------------------------------------------------------------------
\* C24 as claimed: once the effects of a render have run, the canvas shows
\* terms of the current normalised word list only, one drawing per placement
\* of the run over them, and nothing when that list is empty.
C24_CanvasShowsCurrentTerms ==
  (pc = "ready" /\ runs > 0) =>
    /\ Len(canvas) = Len(placements)
    /\ \A i \in DOMAIN canvas :
         \E j \in DOMAIN processedWords : processedWords[j].text = canvas[i].text
    /\ (processedWords = << >> => canvas = << >>)

\* ------------------------------------------------------------------------
\* The surface a run uses
\* ------------------------------------------------------------------------
\* C25 as claimed, for the runs whose result stays on screen: a run that has
\* placed or dropped terms and is followed by no pending size update used the
\* width max(300, w - 48) for a measured container width w, and the height
\* prop.
C25_RunsUseMeasuredWidth ==
  (pc = "ready" /\ ~queued.set /\ (placements # << >> \/ dropped # << >>)) =>
    /\ dimensions.width \in
         { (IF cw - 48 > 300 THEN cw - 48 ELSE 300) : cw \in ContainerWidths }
    /\ dimensions.height = height

\* ------------------------------------------------------------------------
\* C26: a mounted WordCloud has exactly one window resize listener at any
\* time.  Once the sizing effect has run there is one listener, and it reads
\* the current height; a change of height never leaves two (the old one is
\* removed before the new one is added); after the unmount there is none,
\* and no step changes the dimensions or queues an update of them.
C26_EffectHasRun == pc \in { "placing", "ready" } \/ (pc = "commit" /\ ~resizePending)

C26_ListenerCount ==
  /\ Len(listeners) <= 1
  /\ C26_EffectHasRun => listeners = << height >>
  /\ pc = "unmounted" => listeners = << >>

C26_NoUpdateAfterUnmount ==
  pc = "unmounted" => (dimensions' = dimensions /\ queued' = queued /\ pc' = pc)

C26_SingleListener ==
  /\ []C26_ListenerCount
  /\ [][C26_NoUpdateAfterUnmount]_vars

\* the component was given another height while it showed the placeholder,
\* and was then unmounted
C26_Witness ==
  /\ pc = "unmounted"
  /\ dimensions.height # height
  /\ listeners = << >>

\* ------------------------------------------------------------------------
\* retry (services/utils.js lines 502-519)
\* ------------------------------------------------------------------------
\* the largest maxAttempts a caller passes
MaxRetries == 3
\* the delays a caller passes, in milliseconds
DelayChoices == { 0, 100, 1000 }

RetryArgs ==
  [ isFunction : BOOLEAN, maxAttempts : 0..MaxRetries, delay : DelayChoices ]

\* faulty variant: the delay stays as it was passed
NextDelayConstant(d) == d

\* delay *= 2 (line 516)
NextDelay(d) == d * 2

\* attempt === maxAttempts (line 510)
IsLastAttempt(a, n) == a = n

\* the call enters the function: the typeof check (lines 503-505), and the
\* initialisation of the loop (506)
RetryEnter ==
  /\ retryPc = "entry"
  /\ IF retryArgs.isFunction
     THEN /\ retryPc' = "loop"
          /\ attempt' = 1
          /\ retryOutcome' = retryOutcome
     ELSE /\ retryPc' = "settled"
          /\ attempt' = attempt
          /\ retryOutcome' = [kind |-> "rejected", call |-> 0]
  /\ UNCHANGED << retryArgs, delay, fnResults, waits, cloudVars, videosVars, videoDataVars, categoriesVars >>

\* the loop test, and the call of fn when it holds (lines 506-508); the
\* async function returns undefined when the loop ends
RetryLoop ==
  /\ retryPc = "loop"
  /\ IF attempt <= retryArgs.maxAttempts
     THEN /\ retryPc' = "awaitFn"
          /\ retryOutcome' = retryOutcome
     ELSE /\ retryPc' = "settled"
          /\ retryOutcome' = [kind |-> "resolved", call |-> 0]
  /\ UNCHANGED << retryArgs, attempt, delay, fnResults, waits, cloudVars, videosVars, videoDataVars, categoriesVars >>

\* the promise of fn settles: return its value (508), throw its error at
\* the last attempt (510-512), otherwise start the timer (515)
FnSettles ==
  /\ retryPc = "awaitFn"
  /\ \E r \in { "fulfilled", "rejected" } :
       /\ fnResults' = Append(fnResults, r)
       /\ IF r = "fulfilled"
          THEN /\ retryPc' = "settled"
               /\ retryOutcome' = [kind |-> "resolved", call |-> Len(fnResults')]
               /\ waits' = waits
          ELSE IF IsLastAttempt(attempt, retryArgs.maxAttempts)
          THEN /\ retryPc' = "settled"
               /\ retryOutcome' = [kind |-> "rejected", call |-> Len(fnResults')]
               /\ waits' = waits
          ELSE /\ retryPc' = "timer"
               /\ retryOutcome' = retryOutcome
               /\ waits' = Append(waits, delay)
  /\ UNCHANGED << retryArgs, attempt, delay, cloudVars, videosVars, videoDataVars, categoriesVars >>

\* the timer fires: delay *= 2 (516) and attempt++ (506)
TimerFires ==
  /\ retryPc = "timer"
  /\ delay' = NextDelay(delay)
  /\ attempt' = attempt + 1
  /\ retryPc' = "loop"
  /\ UNCHANGED << retryArgs, fnResults, waits, retryOutcome, cloudVars, videosVars, videoDataVars, categoriesVars >>

NextRetry ==
  \/ RetryEnter
  \/ RetryLoop
  \/ FnSettles
  \/ TimerFires

\* a caller has just called retry
InitRetry ==
  /\ InitCloudAtRest
  /\ InitHooks
  /\ retryArgs \in RetryArgs
  /\ retryPc = "entry"
  /\ attempt = 0
  /\ delay = retryArgs.delay
  /\ fnResults = << >>
  /\ waits = << >>
  /\ retryOutcome = NoOutcome

SpecRetry == InitRetry /\ [][NextRetry]_vars

\* ------------------------------------------------------------------------
\* C27: retry calls fn one call at a time, never after a success and at most
\* maxAttempts times; it resolves with the result of the first successful
\* call, rejects with the error of the maxAttempts-th call when all calls
\* failed, and the wait after the k-th failed call is delay * 2^(k-1).
RECURSIVE C27_Pow2(_)
C27_Pow2(n) == IF n = 0 THEN 1 ELSE 2 * C27_Pow2(n - 1)

\* calls of fn started so far
C27_Calls == Len(fnResults) + (IF retryPc = "awaitFn" THEN 1 ELSE 0)

C27_Sequential ==
  /\ C27_Calls <= retryArgs.maxAttempts
  /\ \A k \in 1..(C27_Calls - 1) : fnResults[k] = "rejected"
  /\ retryPc = "awaitFn" => Len(waits) = Len(fnResults)

C27_Settles ==
  /\ (fnResults # << >> /\ fnResults[Len(fnResults)] = "fulfilled") =>
       /\ retryPc = "settled"
       /\ retryOutcome = [kind |-> "resolved", call |-> Len(fnResults)]
  /\ (retryPc = "settled" /\ fnResults # << >>
        /\ \A k \in 1..Len(fnResults) : fnResults[k] = "rejected") =>
       /\ Len(fnResults) = retryArgs.maxAttempts
       /\ retryOutcome = [kind |-> "rejected", call |-> retryArgs.maxAttempts]

C27_Backoff ==
  \A k \in 1..Len(waits) :
    /\ waits[k] = retryArgs.delay * C27_Pow2(k - 1)
    /\ k <= Len(fnResults) /\ fnResults[k] = "rejected"

C27_RetryContract == C27_Sequential /\ C27_Settles /\ C27_Backoff

\* every call failed, with two waits between the three calls
C27_Witness ==
  /\ retryPc = "settled"
  /\ retryOutcome = [kind |-> "rejected", call |-> 3]
  /\ waits = << 100, 200 >>

\* ------------------------------------------------------------------------
\* useMultipleVideos (hooks/useVideoData.js lines 356-430); useMultipleChannels
\* (lines 742-816) is the same code over channels
\* ------------------------------------------------------------------------
\* the ids a caller passes; "" is falsy
VideoIds == { "", "a", "b" }
\* requests issued in one behaviour
MaxRequests == 3

\* new Map(mp).set(k, v)
MapSet(mp, k, v) ==
  [x \in DOMAIN mp \cup { k } |-> IF x = k THEN v ELSE mp[x]]

\* mp.delete(k) on a copy
MapDelete(mp, k) == [x \in DOMAIN mp \ { k } |-> mp[x]]

\* addVideo up to its await: the guard and the first setState (366-373)
AddVideo ==
  /\ issued < MaxRequests
  /\ \E videoId \in VideoIds :
       IF videoId = ""
       THEN UNCHANGED << state, pending, issued, removedIds >>
       ELSE /\ state' = [state EXCEPT
                           !.loading = @ \cup { videoId },
                           !.errors = MapDelete(@, videoId)]
            /\ issued' = issued + 1
            /\ pending' = pending \cup { [videoId |-> videoId, n |-> issued'] }
            /\ removedIds' = removedIds \ { videoId }
  /\ UNCHANGED << cloudVars, retryVars, videoDataVars, categoriesVars >>

\* the request r is fulfilled: the setState of lines 378-388
RequestSucceeds ==
  /\ \E r \in pending :
       /\ pending' = pending \ { r }
       /\ state' = [state EXCEPT
                      !.loading = @ \ { r.videoId },
                      !.videos = MapSet(@, r.videoId, r.n),
                      !.sessionIds = MapSet(@, r.videoId, r.n)]
  /\ UNCHANGED << issued, removedIds, cloudVars, retryVars, videoDataVars, categoriesVars >>

\* the request r is rejected: the setState of lines 394-403
RequestFails ==
  /\ \E r \in pending :
       /\ pending' = pending \ { r }
       /\ state' = [state EXCEPT
                      !.loading = @ \ { r.videoId },
                      !.errors = MapSet(@, r.videoId, r.n)]
  /\ UNCHANGED << issued, removedIds, cloudVars, retryVars, videoDataVars, categoriesVars >>

\* removeVideo (lines 410-430)
RemoveVideo ==
  /\ \E videoId \in VideoIds \ { "" } :
       /\ state' = [videos |-> MapDelete(state.videos, videoId),
                    errors |-> MapDelete(state.errors, videoId),
                    sessionIds |-> MapDelete(state.sessionIds, videoId),
                    loading |-> state.loading \ { videoId }]
       /\ removedIds' = removedIds \cup { videoId }
  /\ UNCHANGED << pending, issued, cloudVars, retryVars, videoDataVars, categoriesVars >>

\* clearAll (lines 433-440)
ClearAll ==
  /\ state' = [videos |-> EmptyMap, loading |-> {}, errors |-> EmptyMap,
               sessionIds |-> EmptyMap]
  /\ UNCHANGED << pending, issued, removedIds, cloudVars, retryVars, videoDataVars, categoriesVars >>

NextVideos ==
  \/ AddVideo
  \/ RequestSucceeds
  \/ RequestFails
  \/ RemoveVideo
  \/ ClearAll

InitVideosSpec == InitCloudAtRest /\ InitOther
SpecVideos == InitVideosSpec /\ [][NextVideos]_vars

\* ------------------------------------------------------------------------
\* C28: once removeVideo(id) has been called and no request is in flight any
\* more, id is absent from videos, sessionIds, errors and loading, unless
\* addVideo(id) was called again after the removal.
C28_RemovedStaysAbsent ==
  pending = {} =>
    \A id \in removedIds :
      /\ id \notin DOMAIN state.videos
      /\ id \notin DOMAIN state.sessionIds
      /\ id \notin DOMAIN state.errors
      /\ id \notin state.loading

\* ------------------------------------------------------------------------
\* useVideoData (hooks/useVideoData.js lines 8-97, 302-306)
\* ------------------------------------------------------------------------
\* the ids a caller passes to analyzeVideo; "" is falsy
AnalysisIds == { "", "a", "b" }
\* analyzeVideo requests issued in one behaviour
MaxAnalyses == 3

\* the setState before the request (lines 66-71)
MarkRequested(st, videoId) ==
  [st EXCEPT !.loading = TRUE, !.error = "null", !.lastVideoId = videoId]

\* analyzeVideo(videoId) up to its await (lines 54-76)
StartAnalysis(videoId) ==
  IF videoId = ""
  THEN /\ videoState' = [videoState EXCEPT !.error = "Video ID is required"]
       /\ UNCHANGED << analyses, analysesIssued >>
  ELSE /\ videoState' = MarkRequested(videoState, videoId)
       /\ analysesIssued' = analysesIssued + 1
       /\ analyses' = analyses \cup { [videoId |-> videoId, n |-> analysesIssued'] }

AnalyzeVideo ==
  /\ analysesIssued < MaxAnalyses
  /\ \E videoId \in AnalysisIds : StartAnalysis(videoId)
  /\ UNCHANGED << anyFailed, cloudVars, retryVars, videosVars, categoriesVars >>

\* retryAnalysis (lines 302-306)
RetryAnalysis ==
  /\ analysesIssued < MaxAnalyses
  /\ IF videoState.lastVideoId # ""
     THEN StartAnalysis(videoState.lastVideoId)
     ELSE UNCHANGED << videoState, analyses, analysesIssued >>
  /\ UNCHANGED << anyFailed, cloudVars, retryVars, videosVars, categoriesVars >>

\* the request r is fulfilled: the setState of lines 78-84
AnalysisSucceeds ==
  /\ \E r \in analyses :
       /\ analyses' = analyses \ { r }
       /\ videoState' = [videoState EXCEPT
                           !.loading = FALSE, !.videoData = r,
                           !.sessionId = r, !.error = "null"]
  /\ UNCHANGED << analysesIssued, anyFailed, cloudVars, retryVars, videosVars, categoriesVars >>

\* the request r is rejected: the setState of lines 90-94
AnalysisFails ==
  /\ \E r \in analyses :
       /\ analyses' = analyses \ { r }
       /\ videoState' = [videoState EXCEPT
                           !.loading = FALSE, !.error = "failed"]
  /\ anyFailed' = TRUE
  /\ UNCHANGED << analysesIssued, cloudVars, retryVars, videosVars, categoriesVars >>

\* reset (lines 34-51): sessionId is kept
ResetVideoData ==
  /\ videoState' = [videoState EXCEPT
                      !.loading = FALSE, !.videoData = NoData,
                      !.error = "null", !.lastVideoId = ""]
  /\ UNCHANGED << analyses, analysesIssued, anyFailed, cloudVars, retryVars,
                  videosVars, categoriesVars >>

NextVideoData ==
  \/ AnalyzeVideo
  \/ RetryAnalysis
  \/ AnalysisSucceeds
  \/ AnalysisFails
  \/ ResetVideoData

InitVideoDataSpec == InitCloudAtRest /\ InitOther
SpecVideoData == InitVideoDataSpec /\ [][NextVideoData]_vars

\* ------------------------------------------------------------------------
\* C29: whenever no analyzeVideo request is in flight and every request
\* issued so far succeeded, videoData is the response for lastVideoId, the
\* most recently requested video.
C29_SettledShowsLast ==
  (analyses = {} /\ ~anyFailed /\ videoState.lastVideoId # "") =>
    videoState.videoData.videoId = videoState.lastVideoId

\* ------------------------------------------------------------------------
\* useTrendingCategories (hooks/useTrendingData.js lines 420-480)
\* ------------------------------------------------------------------------
\* getCategories requests issued in one behaviour
MaxLoads == 3
\* the category lists a response carries
CategoryLists == { "none", "some" }

\* the dependencies of the auto-load effect that change (line 472)
CurrentDeps == << catState.categories, catState.loading >>

\* React runs the effect after a render whose dependencies differ from those
\* of the render before, and after the first render
EffectPending == effectDeps # CurrentDeps

\* !state.categories && !state.loading (line 468)
ShouldAutoLoad(st) == st.categories = "null" /\ ~st.loading

\* loadCategories up to its await (lines 428-432)
StartLoad ==
  /\ catState' = [catState EXCEPT !.loading = TRUE, !.error = "null"]
  /\ catIssued' = catIssued + 1
  /\ catRequests' = catRequests \cup { catIssued' }

\* the auto-load effect (lines 467-472)
AutoLoadEffect ==
  /\ EffectPending
  /\ ShouldAutoLoad(catState) => catIssued < MaxLoads
  /\ effectDeps' = CurrentDeps
  /\ IF ShouldAutoLoad(catState)
     THEN /\ StartLoad
          /\ catAuto' = catAuto + 1
     ELSE UNCHANGED << catState, catRequests, catIssued, catAuto >>
  /\ UNCHANGED << cloudVars, retryVars, videosVars, videoDataVars >>

\* a caller calls loadCategories
LoadCategories ==
  /\ ~EffectPending
  /\ catIssued < MaxLoads
  /\ StartLoad
  /\ UNCHANGED << catAuto, effectDeps, cloudVars, retryVars, videosVars,
                  videoDataVars >>

\* a request is fulfilled: the setState of lines 432-437
LoadSucceeds ==
  /\ ~EffectPending
  /\ \E r \in catRequests, list \in CategoryLists :
       /\ catRequests' = catRequests \ { r }
       /\ catState' = [catState EXCEPT
                         !.loading = FALSE, !.categories = list,
                         !.error = "null"]
  /\ UNCHANGED << catIssued, catAuto, effectDeps, cloudVars, retryVars,
                  videosVars, videoDataVars >>

\* a request is rejected: the setState of lines 441-445
LoadFails ==
  /\ ~EffectPending
  /\ \E r \in catRequests :
       /\ catRequests' = catRequests \ { r }
       /\ catState' = [catState EXCEPT !.loading = FALSE, !.error = "failed"]
  /\ UNCHANGED << catIssued, catAuto, effectDeps, cloudVars, retryVars,
                  videosVars, videoDataVars >>

NextCategories ==
  \/ AutoLoadEffect
  \/ LoadCategories
  \/ LoadSucceeds
  \/ LoadFails

InitCategoriesSpec == InitCloudAtRest /\ InitOther
SpecCategories == InitCategoriesSpec /\ [][NextCategories]_vars

\* ------------------------------------------------------------------------
\* C30: the automatic category load is bounded.  The effect issues a request
\* only while categories is null and no load is in progress, and once a
\* request has failed (loading false, error set) no step issues a request on
\* its own account; only an explicit call of loadCategories does.
C30_AutoLoadStep == catAuto' # catAuto

C30_AutoLoadGuarded ==
  C30_AutoLoadStep => (catState.categories = "null" /\ ~catState.loading)

C30_QuiescentAfterFailure ==
  (~catState.loading /\ catState.error # "null") => ~C30_AutoLoadStep

C30_BoundedAutoLoad ==
  /\ [][C30_AutoLoadGuarded]_vars
  /\ [][C30_QuiescentAfterFailure]_vars

====
